---------------------------- MODULE Spec2Model ----------------------------
(***************************************************************************)
(* A model of http-service (src/src/lib.rs): the Body type, a type-erased  *)
(* asynchronous byte reader, and the HttpService trait with its blanket    *)
(* implementation for functions.                                           *)
(*                                                                         *)
(* SpecBody explores one Body from construction through a bounded number   *)
(* of poll_read and Debug::fmt calls.  SpecService explores one service    *)
(* function shared by several connections, each of which calls respond     *)
(* once and polls the returned future to completion.                       *)
(***************************************************************************)
EXTENDS Integers, Sequences, FiniteSets

VARIABLES
    body,        \* the Body under observation: [reader |-> ...]
    orig,        \* how it was constructed: [ctor, data]
    prev,        \* the Body as it was before the last operation
    lastOp,      \* "new", "read", "fmt" or "env"
    bufIn,       \* length of the destination buffer of the last read
    last,        \* what the last read returned: [tag, n, err, buf]
    delivered,   \* bytes handed to the caller by completed reads, in order
    nreads,      \* number of reads made on the Body
    rendered,    \* output of the last Debug::fmt, <<>> before the first
    svc,         \* the service function: request -> outcome of its future
    pc,          \* per connection: "idle", "pending" or "done"
    req,         \* per connection: the request passed to respond
    fut,         \* per connection: the future returned by respond
    result,      \* per connection: what the future resolved to
    conn,        \* per connection: "open" or "dropped"
    sent,        \* per connection: the response written, or NoResponse
    deliveries,  \* per connection: number of times its future resolved
    invoked      \* requests the service function was called with, in order

bvars == <<body, orig, prev, lastOp, bufIn, last, delivered, nreads, rendered>>
svars == <<svc, pc, req, fut, result, conn, sent, deliveries, invoked>>
vars == <<body, orig, prev, lastOp, bufIn, last, delivered, nreads, rendered,
          svc, pc, req, fut, result, conn, sent, deliveries, invoked>>

---------------------------------------------------------------------------
(* Bounds of the exploration *)

MaxVecLen == 2
MaxReads == 4
NumConns == 2
NumRequests == 2
MaxSuspend == 1

Byte == {72, 105}
Vecs == UNION {[1..n -> Byte] : n \in 0..MaxVecLen}
BufSizes == {0, 1, 2, 10}
IoErrors == {"BrokenPipe", "TimedOut"}

Min(a, b) == IF a <= b THEN a ELSE b

\* A destination buffer as the caller hands it in: n zero bytes.
ZeroBuf(n) == [i \in 1..n |-> 0]

---------------------------------------------------------------------------
(* Readers: what a Box<dyn Read + Unpin + Send> may hold.  Every reader    *)
(* counts the poll_read calls made on it (npolls) and keeps the buffer     *)
(* length and the outcome of the latest one (lastPoll).                    *)

PollOk(n) == [tag |-> "Ok", n |-> n, err |-> ""]
PollPending == [tag |-> "Pending", n |-> 0, err |-> ""]
PollErr(e) == [tag |-> "Err", n |-> 0, err |-> e]

NoPoll == [len |-> 0, res |-> PollOk(0)]

\* io::empty()
Empty == [kind |-> "empty", data |-> <<>>, pos |-> 0, avail |-> 0, err |-> "",
          npolls |-> 0, lastPoll |-> NoPoll]

\* io::Cursor::new(vec): position 0 over the vector.
Cursor_new(vec) == [kind |-> "cursor", data |-> vec, pos |-> 0, avail |-> 0,
                    err |-> "", npolls |-> 0, lastPoll |-> NoPoll]

\* Any other asynchronous reader: a stream that will carry `data`, of which
\* `avail` bytes beyond `pos` have arrived, and which may have an I/O error
\* to report.
Stream(data) == [kind |-> "stream", data |-> data, pos |-> 0, avail |-> 0,
                 err |-> "", npolls |-> 0, lastPoll |-> NoPoll]

\* Bytes the reader has not yet delivered.
Remaining(r) == IF r.kind = "empty" THEN 0
                ELSE Len(r.data) - Min(r.pos, Len(r.data))

\* Bytes the reader could deliver right now.
Ready(r) == CASE r.kind = "empty" -> 0
              [] r.kind = "cursor" -> Remaining(r)
              [] OTHER -> r.avail

AtEof(r) == Remaining(r) = 0

Logged(r, len, res) == [r EXCEPT !.npolls = @ + 1, !.lastPoll = [len |-> len, res |-> res]]

\* Copy n bytes of r.data from r.pos into the front of buf.
Fill(r, buf, n) == [i \in 1..Len(buf) |-> IF i <= n THEN r.data[r.pos + i] ELSE buf[i]]

\* <dyn Read>::poll_read(cx, buf) on the boxed reader.
Reader_poll_read(r, buf) ==
    CASE r.kind = "empty" ->
           [reader |-> Logged(r, Len(buf), PollOk(0)), res |-> PollOk(0), buf |-> buf]
      [] r.kind = "cursor" ->
           LET n == Min(Len(buf), Remaining(r))
           IN  [reader |-> Logged([r EXCEPT !.pos = @ + n], Len(buf), PollOk(n)),
                res |-> PollOk(n), buf |-> Fill(r, buf, n)]
      [] OTHER ->
           IF r.err # ""
           THEN [reader |-> Logged([r EXCEPT !.err = ""], Len(buf), PollErr(r.err)),
                 res |-> PollErr(r.err), buf |-> buf]
           ELSE IF r.avail = 0 /\ ~AtEof(r)
           THEN [reader |-> Logged(r, Len(buf), PollPending),
                 res |-> PollPending, buf |-> buf]
           ELSE LET n == Min(Len(buf), r.avail)
                IN  [reader |-> Logged([r EXCEPT !.pos = @ + n, !.avail = @ - n],
                                       Len(buf), PollOk(n)),
                     res |-> PollOk(n), buf |-> Fill(r, buf, n)]

---------------------------------------------------------------------------
(* Body *)

\* Body::empty() built over a cursor that still holds a byte.
Body_empty_nonempty == [reader |-> Cursor_new(<<72>>)]

\* Body::empty()
Body_empty == [reader |-> Empty]

\* Body::from_reader(reader)
Body_from_reader(reader) == [reader |-> reader]

\* From<Vec<u8>> that boxes io::empty() and drops the vector.
Body_from_vec_dropped(vec) == [reader |-> Empty]

\* impl From<Vec<u8>> for Body
Body_from_vec(vec) == [reader |-> Cursor_new(vec)]

\* impl From<Box<R>> for Body
Body_from_box(reader) == [reader |-> reader]

\* poll_read that polls the reader a second time when it reports an error.
Body_poll_read_retry(self, buf) ==
    LET p == Reader_poll_read(self.reader, buf)
        q == IF p.res.tag = "Err" THEN Reader_poll_read(p.reader, buf) ELSE p
    IN  [self |-> [self EXCEPT !.reader = q.reader], res |-> q.res, buf |-> q.buf]

\* poll_read that reports end-of-stream when the reader suspends.
Body_poll_read_eof_on_pending(self, buf) ==
    LET p == Reader_poll_read(self.reader, buf)
    IN  [self |-> [self EXCEPT !.reader = p.reader],
         res |-> IF p.res.tag = "Pending" THEN PollOk(0) ELSE p.res,
         buf |-> p.buf]

\* poll_read that hands the reader the empty slice &mut buf[..0].
Body_poll_read_empty_slice(self, buf) ==
    LET p == Reader_poll_read(self.reader, <<>>)
    IN  [self |-> [self EXCEPT !.reader = p.reader], res |-> p.res, buf |-> buf]

\* poll_read that hands the reader the buffer without its last byte.
Body_poll_read_short(self, buf) ==
    LET m == IF Len(buf) = 0 THEN 0 ELSE Len(buf) - 1
        p == Reader_poll_read(self.reader, SubSeq(buf, 1, m))
    IN  [self |-> [self EXCEPT !.reader = p.reader], res |-> p.res,
         buf |-> p.buf \o SubSeq(buf, m + 1, Len(buf))]

\* impl Read for Body: poll_read
Body_poll_read(self, buf) ==
    LET p == Reader_poll_read(self.reader, buf)
    IN  [self |-> [self EXCEPT !.reader = p.reader], res |-> p.res, buf |-> p.buf]

\* <str as Debug>::fmt: the text between double quotes.
Str_debug(s) == <<"\"", s, "\"">>

\* Formatter::debug_struct(name).field(fname, value).finish(), one field.
Debug_struct(name, fname, value) == <<name, " { ", fname, ": ">> \o value \o <<" }">>

\* fmt that shows the bytes of the reader as the field's value.
Body_fmt_leak(self) ==
    [self |-> self, out |-> Debug_struct("Body", "reader", self.reader.data)]

\* impl fmt::Debug for Body: fmt(&self, f).  `self` is the Body after the
\* call, `out` what was written to the formatter.
Body_fmt(self) ==
    [self |-> self, out |-> Debug_struct("Body", "reader", Str_debug("<hidden>"))]

---------------------------------------------------------------------------
(* The Body specification *)

Constructed ==
    {[b |-> Body_empty, o |-> [ctor |-> "empty", data |-> <<>>]]}
    \cup {[b |-> Body_from_vec(v), o |-> [ctor |-> "vec", data |-> v]] : v \in Vecs}
    \cup {[b |-> Body_from_reader(Stream(v)), o |-> [ctor |-> "reader", data |-> v]] : v \in Vecs}
    \cup {[b |-> Body_from_box(Cursor_new(v)), o |-> [ctor |-> "boxed", data |-> v]] : v \in Vecs}

NoRead == [tag |-> "Ok", n |-> 0, err |-> "", buf |-> <<>>]

InitBody ==
    /\ \E c \in Constructed : body = c.b /\ orig = c.o /\ prev = c.b
    /\ lastOp = "new"
    /\ bufIn = 0
    /\ last = NoRead
    /\ delivered = <<>>
    /\ nreads = 0
    /\ rendered = <<>>
    /\ svc = [r \in 1..NumRequests |-> [tag |-> "Ok", val |-> "A"]]
    /\ pc = [c \in 1..NumConns |-> "idle"]
    /\ req = [c \in 1..NumConns |-> 1]
    /\ fut = [c \in 1..NumConns |-> [out |-> svc[1], steps |-> 0]]
    /\ result = [c \in 1..NumConns |-> [tag |-> "None", val |-> ""]]
    /\ conn = [c \in 1..NumConns |-> "open"]
    /\ sent = [c \in 1..NumConns |-> "none"]
    /\ deliveries = [c \in 1..NumConns |-> 0]
    /\ invoked = <<>>

\* The caller polls the Body with a fresh destination buffer of `len` bytes.
Read(len) ==
    /\ nreads < MaxReads
    /\ LET r == Body_poll_read(body, ZeroBuf(len))
       IN  /\ body' = r.self
           /\ last' = [tag |-> r.res.tag, n |-> r.res.n, err |-> r.res.err, buf |-> r.buf]
           /\ delivered' = IF r.res.tag = "Ok"
                           THEN delivered \o SubSeq(r.buf, 1, r.res.n)
                           ELSE delivered
           /\ nreads' = nreads + 1
    /\ prev' = body
    /\ lastOp' = "read"
    /\ bufIn' = len
    /\ UNCHANGED <<orig, rendered>>
    /\ UNCHANGED svars

\* Someone formats the Body with {:?}.
Fmt ==
    /\ LET r == Body_fmt(body)
       IN  /\ body' = r.self
           /\ rendered' = r.out
    /\ prev' = body
    /\ lastOp' = "fmt"
    /\ bufIn' = 0
    /\ last' = NoRead
    /\ UNCHANGED <<orig, delivered, nreads>>
    /\ UNCHANGED svars

\* One more byte of a stream source arrives.
Arrive ==
    /\ body.reader.kind = "stream"
    /\ body.reader.pos + body.reader.avail < Len(body.reader.data)
    /\ body' = [body EXCEPT !.reader.avail = @ + 1]
    /\ prev' = body'
    /\ lastOp' = "env"
    /\ bufIn' = 0
    /\ last' = NoRead
    /\ UNCHANGED <<orig, delivered, nreads, rendered>>
    /\ UNCHANGED svars

\* A stream source runs into an I/O error, reported by its next poll.
Fail(e) ==
    /\ body.reader.kind = "stream"
    /\ body.reader.err = ""
    /\ nreads < MaxReads
    /\ body' = [body EXCEPT !.reader.err = e]
    /\ prev' = body'
    /\ lastOp' = "env"
    /\ bufIn' = 0
    /\ last' = NoRead
    /\ UNCHANGED <<orig, delivered, nreads, rendered>>
    /\ UNCHANGED svars

NextBody ==
    \/ \E len \in BufSizes : Read(len)
    \/ Fmt
    \/ Arrive
    \/ \E e \in IoErrors : Fail(e)

---------------------------------------------------------------------------
(* HttpService *)

Conns == 1..NumConns
Requests == 1..NumRequests
Responses == {"A", "B"}
ServiceErrors == {"E"}
NoResponse == "none"

ROk(resp) == [tag |-> "Ok", val |-> resp]
RErr(e) == [tag |-> "Err", val |-> e]
Unresolved == [tag |-> "None", val |-> ""]

\* Result<Response, E>
Outcomes == {ROk(x) : x \in Responses} \cup {RErr(e) : e \in ServiceErrors}

\* F: Fn(Request) -> R, shareable between threads; the future it returns
\* for a request is named by the outcome that future resolves to.
Services == [Requests -> Outcomes]

\* R: Future<Output = Result<Response, E>> once running: it reports Pending
\* `steps` more times and then resolves to `out`.
Running(out, steps) == [out |-> out, steps |-> steps]

\* Future::poll on a ResponseFuture
Future_poll(f) ==
    IF f.steps > 0
    THEN [fut |-> [f EXCEPT !.steps = @ - 1], ready |-> FALSE, out |-> Unresolved]
    ELSE [fut |-> f, ready |-> TRUE, out |-> f.out]

\* respond that calls the function twice and returns the second future.
respond_twice(self, r) == [fut |-> self[r], args |-> <<r, r>>]

\* respond that answers from the request of the latest call made by anyone
\* (a request slot shared between callers).
respond_stale(self, r) ==
    [fut |-> self[IF invoked = <<>> THEN r ELSE invoked[Len(invoked)]], args |-> <<r>>]

\* impl HttpService<E> for F: respond(&self, req) is (self)(req).  `args`
\* lists the requests the function is called with.
respond(self, r) == [fut |-> self[r], args |-> <<r>>]

\* A server that answers an error with a response instead of dropping.
Server_complete_salvage(out) == [conn |-> "open", sent |-> "A"]

\* The server's handling of a resolved ResponseFuture: an error drops the
\* connection without a response, a response is written to it.
Server_complete(out) ==
    IF out.tag = "Err"
    THEN [conn |-> "dropped", sent |-> NoResponse]
    ELSE [conn |-> "open", sent |-> out.val]

InitService ==
    /\ svc \in Services
    /\ pc = [c \in Conns |-> "idle"]
    /\ req = [c \in Conns |-> 1]
    /\ fut = [c \in Conns |-> Running(svc[1], 0)]
    /\ result = [c \in Conns |-> Unresolved]
    /\ conn = [c \in Conns |-> "open"]
    /\ sent = [c \in Conns |-> NoResponse]
    /\ deliveries = [c \in Conns |-> 0]
    /\ invoked = <<>>
    /\ body = [reader |-> Empty]
    /\ orig = [ctor |-> "empty", data |-> <<>>]
    /\ prev = body
    /\ lastOp = "new"
    /\ bufIn = 0
    /\ last = NoRead
    /\ delivered = <<>>
    /\ nreads = 0
    /\ rendered = <<>>

\* The server task of connection c calls respond with request r; the
\* future it gets will suspend n times before it resolves.
Respond(c, r, n) ==
    /\ pc[c] = "idle"
    /\ LET k == respond(svc, r)
       IN  /\ fut' = [fut EXCEPT ![c] = Running(k.fut, n)]
           /\ invoked' = invoked \o k.args
    /\ req' = [req EXCEPT ![c] = r]
    /\ pc' = [pc EXCEPT ![c] = "pending"]
    /\ UNCHANGED <<svc, result, conn, sent, deliveries>>
    /\ UNCHANGED bvars

\* The server task of connection c polls its future; when it is ready the
\* task acts on the result at once.
Poll(c) ==
    /\ pc[c] = "pending"
    /\ LET p == Future_poll(fut[c])
       IN  IF p.ready
           THEN LET s == Server_complete(p.out)
                IN  /\ result' = [result EXCEPT ![c] = p.out]
                    /\ deliveries' = [deliveries EXCEPT ![c] = @ + 1]
                    /\ conn' = [conn EXCEPT ![c] = s.conn]
                    /\ sent' = [sent EXCEPT ![c] = s.sent]
                    /\ pc' = [pc EXCEPT ![c] = "done"]
                    /\ fut' = fut
           ELSE /\ fut' = [fut EXCEPT ![c] = p.fut]
                /\ UNCHANGED <<result, deliveries, conn, sent, pc>>
    /\ UNCHANGED <<svc, req, invoked>>
    /\ UNCHANGED bvars

NextService ==
    \/ \E c \in Conns, r \in Requests, n \in 0..MaxSuspend : Respond(c, r, n)
    \/ \E c \in Conns : Poll(c)

---------------------------------------------------------------------------
(* Properties of Body, checked under SpecBody *)

Hi == <<72, 105>>

\* Bytes the Body's reader had handed out before the last read.
PosBefore == Len(delivered) - last.n

\* C1: reading a Body built from a Vec<u8> never fails or suspends; each
\* read copies the next Min(buffer length, bytes left) bytes of the vector
\* to the front of the buffer, so the bytes delivered are always a prefix of
\* the vector, a read into a non-empty buffer returns 0 only once the whole
\* vector has been delivered and does return 0 then; "Hi" read into a
\* 10-byte buffer gives 2 and "Hi", and the next read gives 0.
C1_VecReadToExhaustion ==
    orig.ctor = "vec" =>
      /\ last.tag = "Ok"
      /\ delivered = SubSeq(orig.data, 1, Len(delivered))
      /\ lastOp = "read" =>
           /\ last.n = Min(bufIn, Len(orig.data) - PosBefore)
           /\ SubSeq(last.buf, 1, last.n) = SubSeq(orig.data, PosBefore + 1, Len(delivered))
           /\ (bufIn > 0 /\ last.n = 0) => delivered = orig.data
           /\ (bufIn > 0 /\ PosBefore = Len(orig.data)) => last.n = 0
           /\ (orig.data = Hi /\ bufIn = 10 /\ nreads = 1) =>
                last.n = 2 /\ SubSeq(last.buf, 1, 2) = Hi
           /\ (orig.data = Hi /\ delivered = Hi /\ PosBefore = 2) => last.n = 0

\* "Hi" has been read through a 10-byte buffer and the second read returned 0.
C1_Witness ==
    /\ orig.ctor = "vec" /\ orig.data = Hi
    /\ lastOp = "read" /\ nreads = 2 /\ bufIn = 10
    /\ last.n = 0 /\ delivered = Hi

\* C2: every read of a Body made by Body::empty() completes with Ok(0),
\* whatever the buffer and however many reads came before; it leaves the
\* destination buffer untouched and nothing is ever delivered.
C2_EmptyAlwaysEof ==
    orig.ctor = "empty" =>
      /\ delivered = <<>>
      /\ body.reader.pos = 0
      /\ lastOp = "read" =>
           /\ last.tag = "Ok" /\ last.n = 0 /\ last.err = ""
           /\ last.buf = ZeroBuf(bufIn)

\* A second or later read of an empty Body into a 10-byte buffer.
C2_Witness ==
    /\ orig.ctor = "empty" /\ lastOp = "read"
    /\ nreads >= 2 /\ bufIn = 10 /\ last.n = 0

\* C5: when the source reports an I/O error on a read, that read of the Body
\* returns the same error, having polled the source exactly once, with no
\* count and no byte written.
C5_ErrorVerbatim ==
    (lastOp = "read" /\ (prev.reader.err # "" \/ body.reader.lastPoll.res.tag = "Err")) =>
      /\ last.tag = "Err"
      /\ last.err = prev.reader.err
      /\ last.err = body.reader.lastPoll.res.err
      /\ last.n = 0
      /\ last.buf = ZeroBuf(bufIn)
      /\ body.reader.npolls = prev.reader.npolls + 1
      /\ body.reader.pos = prev.reader.pos

\* A read has just returned the source's TimedOut error with bytes ready.
C5_Witness ==
    /\ lastOp = "read" /\ last.tag = "Err" /\ last.err = "TimedOut"
    /\ prev.reader.err = "TimedOut" /\ prev.reader.avail > 0 /\ bufIn > 0

\* C7: the Debug output of a Body is the fixed text
\* Body { reader: "<hidden>" } whatever the Body holds, equal for any two
\* bodies, and formatting leaves the Body as it was.
C7_DebugOpaque ==
    /\ rendered # <<>> =>
         rendered = <<"Body", " { ", "reader", ": ", "\"", "<hidden>", "\"", " }">>
    /\ Body_fmt(body).out = Body_fmt(Body_empty).out
    /\ Body_fmt(body).out = Body_fmt(Body_from_vec(orig.data)).out
    /\ lastOp = "fmt" => body = prev

\* A Body over a two-byte vector, one byte already read, has been formatted.
C7_Witness ==
    /\ lastOp = "fmt" /\ orig.ctor = "vec" /\ Len(orig.data) = 2
    /\ body.reader.pos = 1 /\ rendered # <<>>

\* What a suspended read leaves behind, and what completed reads add up to.
NoProgressLost ==
    /\ delivered = SubSeq(orig.data, 1, body.reader.pos)
    /\ lastOp = "read" =>
         /\ last.tag = "Pending" =>
              /\ last.n = 0
              /\ last.buf = ZeroBuf(bufIn)
              /\ body.reader.pos = prev.reader.pos
              /\ body.reader.avail = prev.reader.avail
         /\ (last.tag = "Ok" /\ last.n = 0 /\ bufIn > 0) => delivered = orig.data

\* C8 as stated: a read suspends exactly when the source has no bytes ready
\* and is not at end-of-stream; a suspended read delivers nothing and does
\* not move the position; the bytes delivered are those a never-suspending
\* source delivers, in order.
C8_SuspendsIffNotReady ==
    /\ lastOp = "read" =>
         (last.tag = "Pending" <=> (Ready(prev.reader) = 0 /\ ~AtEof(prev.reader)))
    /\ NoProgressLost

\* C8 amended: a read suspends exactly when the source has no bytes ready,
\* is not at end-of-stream and has no I/O error to report; the rest as
\* stated.
C8_SuspendsIffNotReadyNoError ==
    /\ lastOp = "read" =>
         (last.tag = "Pending" <=>
            (Ready(prev.reader) = 0 /\ ~AtEof(prev.reader) /\ prev.reader.err = ""))
    /\ NoProgressLost

\* A stream read that suspended, then delivered a byte, then suspended again.
C8_Witness ==
    /\ lastOp = "read" /\ last.tag = "Pending" /\ bufIn > 0
    /\ orig.ctor = "reader" /\ Len(orig.data) = 2
    /\ body.reader.pos = 1 /\ delivered = SubSeq(orig.data, 1, 1)
    /\ nreads = 3

\* C9 as stated: for every destination buffer, a completed read that
\* returns 0 means the source has no bytes left to deliver.
C9_ZeroMeansEof ==
    (lastOp = "read" /\ last.tag = "Ok" /\ last.n = 0) => AtEof(prev.reader)

\* C9 amended: for every non-empty destination buffer, a completed read
\* that returns 0 means the source has no bytes left to deliver.
C9_ZeroMeansEofNonEmptyBuf ==
    (lastOp = "read" /\ last.tag = "Ok" /\ last.n = 0 /\ bufIn > 0) =>
      /\ AtEof(prev.reader)
      /\ delivered = orig.data

\* A read into a non-empty buffer returned 0 after the data was delivered.
C9_Witness ==
    /\ lastOp = "read" /\ last.tag = "Ok" /\ last.n = 0 /\ bufIn > 0
    /\ orig.data # <<>> /\ delivered = orig.data

\* C10: a Body made by from_reader or from a Box<R> polls its source exactly
\* once per read, with the caller's buffer, and returns the source's outcome
\* and bytes unchanged; the bytes the caller has received are exactly those
\* the source has handed out.
C10_PassThrough ==
    orig.ctor \in {"reader", "boxed"} =>
      /\ body.reader.npolls = nreads
      /\ delivered = SubSeq(orig.data, 1, body.reader.pos)
      /\ lastOp = "read" =>
           /\ body.reader.npolls = prev.reader.npolls + 1
           /\ body.reader.lastPoll.len = bufIn
           /\ body.reader.lastPoll.res = [tag |-> last.tag, n |-> last.n, err |-> last.err]
           /\ Len(last.buf) = bufIn
           /\ body.reader.pos = prev.reader.pos + last.n
           /\ \A i \in 1..bufIn :
                last.buf[i] = IF i <= last.n THEN orig.data[prev.reader.pos + i] ELSE 0

\* The third read of a from_reader Body took one of two bytes that were ready.
C10_Witness ==
    /\ orig.ctor = "reader" /\ lastOp = "read" /\ nreads = 3
    /\ last.tag = "Ok" /\ last.n = 1 /\ bufIn = 1
    /\ Len(orig.data) = 2 /\ body.reader.avail = 1

---------------------------------------------------------------------------
(* Properties of HttpService, checked under SpecService *)

Called == {c \in Conns : pc[c] # "idle"}

TimesInvoked(r) == Cardinality({i \in 1..Len(invoked) : invoked[i] = r})

\* C3: respond through the blanket implementation gives what the function
\* gives: the future a connection holds is the function's future for its
\* request, it resolves to the function's Ok(response) or Err(E), and the
\* function has been called once per respond call, with that request.
C3_RespondIsCall ==
    /\ \A c \in Called :
         /\ fut[c].out = svc[req[c]]
         /\ pc[c] = "done" => result[c] = svc[req[c]]
    /\ Len(invoked) = Cardinality(Called)
    /\ \A r \in Requests : TimesInvoked(r) = Cardinality({c \in Called : req[c] = r})

\* One connection resolved to the function's error, another to its response.
C3_Witness ==
    \E c, d \in Conns :
      /\ pc[c] = "done" /\ result[c] = RErr("E") /\ svc[req[c]] = RErr("E")
      /\ pc[d] = "done" /\ result[d].tag = "Ok"

\* C4: with several connections calling respond on the one service, in any
\* interleaving, a connection's future resolves once, to the result for its
\* own request; connections whose requests have different results never see
\* each other's.
C4_NoCrossDelivery ==
    \A c \in Conns :
      /\ deliveries[c] = IF pc[c] = "done" THEN 1 ELSE 0
      /\ pc[c] # "done" => result[c] = Unresolved
      /\ pc[c] = "done" => result[c] = svc[req[c]]
      /\ \A d \in Conns :
           (pc[c] = "done" /\ pc[d] = "done" /\ svc[req[c]] # svc[req[d]])
             => result[c] # result[d]

\* Connection 2 called first, connection 1 resolved first, and their
\* requests have different results.
C4_Witness ==
    /\ invoked = <<req[2], req[1]>>
    /\ req[1] # req[2] /\ svc[req[1]] # svc[req[2]]
    /\ pc[1] = "done" /\ pc[2] = "pending" /\ fut[2].steps = 0

\* C6: a future that resolves to an error gets its connection dropped in
\* the same step and nothing is ever written to it; a response is written
\* only for a future that resolved to Ok, and it is that response.
C6_ErrorDropsConnection ==
    \A c \in Conns :
      /\ result[c].tag = "Err" => (conn[c] = "dropped" /\ sent[c] = NoResponse)
      /\ sent[c] # NoResponse => (result[c].tag = "Ok" /\ sent[c] = result[c].val)
      /\ conn[c] = "dropped" => result[c].tag = "Err"
      /\ (pc[c] = "done" /\ result[c].tag = "Ok") => sent[c] = result[c].val

\* One connection was dropped on an error while another got its response.
C6_Witness ==
    \E c, d \in Conns :
      /\ result[c].tag = "Err" /\ conn[c] = "dropped" /\ sent[c] = NoResponse
      /\ result[d].tag = "Ok" /\ sent[d] = "B" /\ conn[d] = "open"

---------------------------------------------------------------------------
(* Specifications *)

SpecBody == InitBody /\ [][NextBody]_vars

SpecService == InitService /\ [][NextService]_vars

=============================================================================
